---- MODULE Spec2Model ----
(***************************************************************************)
(* A model of pyDeComp: the CompressMap and ContentsMap command-template   *)
(* dispatchers (DeComp/compress.py, DeComp/contents.py) and the helpers    *)
(* of DeComp/utils.py.                                                      *)
(*                                                                         *)
(* Python strings are sequences of atoms.  An atom is an indivisible piece *)
(* of text: a character of a file name ("a", ".", "t"), a whole word of a  *)
(* command line ("-c", "tar"), the separator " " or "\n", or a whole       *)
(* placeholder "%(source)s".  Python's None is a tagged value where a      *)
(* string, a list or None may occur, and the atom NoneMode where a mode    *)
(* name or None may occur.                                                 *)
(***************************************************************************)
EXTENDS Integers, Sequences, FiniteSets, TLC

VARIABLES
    loaded_type,          \* self.loaded_type[0]
    mode,                 \* self.mode, the default mode
    map,                  \* self._map: mode name -> definition
    search_order,         \* self.search_order
    available,            \* self.available
    extension_separator,  \* self.extension_separator
    host,                 \* the host PATH: executable name -> directory holding it
    which_present,        \* whether the "which" probe itself can be started
    op,                   \* the last operation called ("" before any call)
    inp,                  \* its arguments
    ret,                  \* its return value (tagged)
    exc,                  \* the exception it raised ("" when it returned)
    spawned               \* the subprocess command lines it started, in order

vars == <<loaded_type, mode, map, search_order, available, extension_separator,
          host, which_present, op, inp, ret, exc, spawned>>

config == <<loaded_type, mode, map, search_order, available, extension_separator,
            host, which_present>>

(***************************************************************************)
(* Bounds of the model.                                                    *)
(***************************************************************************)
MaxOrder == 2       \* longest search order
MaxNameLen == 2     \* longest file name, in characters
MaxCommands == 3    \* longest list of names handed to check_available
MaxArgs == 3        \* longest argument template

(***************************************************************************)
(* Python values.                                                          *)
(***************************************************************************)
NoneMode == "<None>"
PyNone == [t |-> "None"]
PyStr(s) == [t |-> "str", v |-> s]
PyList(l) == [t |-> "list", v |-> l]
PyBool(b) == [t |-> "bool", v |-> b]
PyMode(m) == [t |-> "mode", v |-> m]
PySet(x) == [t |-> "set", v |-> x]
NoValue == [t |-> "nothing"]

\* Python truthiness of a mode name or None: None and '' are false.
Truthy(m) == m \notin {NoneMode, ""}

\* All sequences over S of length lo..hi.
SeqsOf(S, lo, hi) == UNION {[1..n -> S] : n \in lo..hi}

\* str.endswith
EndsWith(s, ext) ==
    /\ Len(ext) <= Len(s)
    /\ SubSeq(s, Len(s) - Len(ext) + 1, Len(s)) = ext

Range(f) == {f[i] : i \in DOMAIN f}

\* A set in some iteration order (Python iterates a set in an arbitrary order).
RECURSIVE SetToSeq(_)
SetToSeq(S) ==
    IF S = {} THEN <<>>
    ELSE LET x == CHOOSE y \in S : TRUE IN <<x>> \o SetToSeq(S \ {x})

(***************************************************************************)
(* utils.check_available                                                   *)
(***************************************************************************)
\* What "which name1 name2 ..." writes to stdout: one line, the full path, for
\* every argument found on the PATH, in argument order.
RECURSIVE WhichStdout(_, _)
WhichStdout(commands, path) ==
    IF commands = <<>> THEN <<>>
    ELSE (IF Head(commands) \in DOMAIN path
             THEN path[Head(commands)] \o <<Head(commands), "\n">>
             ELSE <<>>)
         \o WhichStdout(Tail(commands), path)

\* str.split('\n'): the pieces between the separators, empty pieces included.
RECURSIVE SplitLines(_, _)
SplitLines(s, cur) ==
    IF s = <<>> THEN <<cur>>
    ELSE IF Head(s) = "\n" THEN <<cur>> \o SplitLines(Tail(s), <<>>)
    ELSE SplitLines(Tail(s), Append(cur, Head(s)))

\* x.split('/', 1)[1]: what follows the first '/'.
AfterFirstSlash(x) ==
    LET n == Len(x) IN
    IF \A i \in 1..n : x[i] # "/" THEN <<"IndexError">>
    ELSE LET k == CHOOSE i \in 1..n : x[i] = "/" /\ \A j \in 1..(i-1) : x[j] # "/"
         IN SubSeq(x, k + 1, n)

\* x.rsplit('/', 1)[1]: what follows the last '/'.
AfterLastSlash(x) ==
    LET n == Len(x) IN
    IF \A i \in 1..n : x[i] # "/" THEN <<"IndexError">>
    ELSE LET k == CHOOSE i \in 1..n : x[i] = "/" /\ \A j \in (i+1)..n : x[j] # "/"
         IN SubSeq(x, k + 1, n)

\* A one-atom string as the atom itself (executable names are single atoms).
NameOf(x) == IF Len(x) = 1 THEN x[1] ELSE "<path>"

check_available(commands, path, probe_ok) ==
    LET stdout == IF probe_ok THEN WhichStdout(commands, path) ELSE <<>>
        lines == SplitLines(stdout, <<>>)
    IN {NameOf(AfterLastSlash(lines[i])) : i \in {j \in 1..Len(lines) : lines[j] # <<>>}}

\* An enabled() that takes every binary as installed.
is_available_always(def, available_binaries) == TRUE

\* utils._is_available: the enabled() method of a definition.
is_available(def, available_binaries) == def.binaries \subseteq available_binaries

(***************************************************************************)
(* The template renderer: CompressMap._sub_other_options and the           *)
(* ' '.join(args) % cmdinfo of _common and _sqfs.                          *)
(***************************************************************************)
OTHER_OPTIONS == <<"other_options">>    \* the placeholder token 'other_options'

\* Python truthiness of a tagged value.
PyTruthy(x) ==
    CASE x.t = "None" -> FALSE
      [] x.t = "bool" -> x.v
      [] OTHER -> x.v # <<>>

\* sep.join(list)
RECURSIVE Join(_, _)
Join(list, sep) ==
    IF list = <<>> THEN <<>>
    ELSE IF Len(list) = 1 THEN list[1]
    ELSE list[1] \o sep \o Join(Tail(list), sep)

SPACE == <<" ">>

\* list.index(x): the first position of x (x is in the list).
IndexOf(list, x) == CHOOSE i \in 1..Len(list) : list[i] = x /\ \A j \in 1..(i-1) : list[j] # x

\* list.remove(x): the list without the first x (x is in the list).
RemoveFirst(list, x) ==
    LET i == IndexOf(list, x) IN SubSeq(list, 1, i - 1) \o SubSeq(list, i + 1, Len(list))

\* [x for x in list if x]
NonNull(list) == SelectSeq(list, LAMBDA x : x # <<>>)

_sub_other_options(args, cmdinfo) ==
    LET oo == cmdinfo.other_options
        cmdargs ==
            IF OTHER_OPTIONS \in Range(args)
            THEN IF oo.t = "str"
                 THEN IF ~PyTruthy(oo)
                      THEN RemoveFirst(args, OTHER_OPTIONS)
                      ELSE [args EXCEPT ![IndexOf(args, OTHER_OPTIONS)] = oo.v]
                 ELSE IF ~PyTruthy(oo)
                      THEN RemoveFirst(args, OTHER_OPTIONS)
                      ELSE [args EXCEPT ![IndexOf(args, OTHER_OPTIONS)] = Join(oo.v, SPACE)]
            ELSE args
    IN NonNull(cmdargs)

\* The %(key)s placeholders and the key each names.
KeyOf ==
    ("%(source)s" :> "source") @@ ("%(destination)s" :> "destination") @@
    ("%(basedir)s" :> "basedir") @@ ("%(filename)s" :> "filename") @@
    ("%(arch)s" :> "arch") @@ ("%(comp_prog)s" :> "comp_prog") @@
    ("%(decomp_opt)s" :> "decomp_opt")

\* '%s' of a value: str(value).
PyStrOf(x) ==
    CASE x.t = "str" -> x.v
      [] x.t = "None" -> <<"None">>
      [] OTHER -> <<"<repr>">>

\* text % cmdinfo: every placeholder atom gives way to str() of the value it names.
RECURSIVE PercentFormat(_, _)
PercentFormat(text, cmdinfo) ==
    IF text = <<>> THEN <<>>
    ELSE (IF Head(text) \in DOMAIN KeyOf
             THEN PyStrOf(cmdinfo[KeyOf[Head(text)]])
             ELSE <<Head(text)>>)
         \o PercentFormat(Tail(text), cmdinfo)

(***************************************************************************)
(* The process runner: utils.subcmd.  proc is what the host does with the  *)
(* subshell: whether it can be started, and its exit status.               *)
(***************************************************************************)
Outcome(r, e, s) == [ret |-> r, exc |-> e, spawned |-> s]
Returns(r) == Outcome(r, "", <<>>)
Raises(e) == Outcome(NoValue, e, <<>>)

\* A subcmd that reports success whatever the exit status.
subcmd_ignores_status(command, proc) ==
    IF ~proc.started THEN Raises("OSError")
    ELSE Outcome(PyBool(TRUE), "", <<[command |-> command]>>)

subcmd(command, proc) ==
    IF ~proc.started THEN Raises("OSError")      \* Popen raises, subcmd re-raises
    ELSE IF proc.status # 0
         THEN Outcome(PyBool(FALSE), "", <<[command |-> command]>>)
         ELSE Outcome(PyBool(TRUE), "", <<[command |-> command]>>)

\* The handler's rendering, kept with the subprocess it starts: the mode's
\* cmdinfo and the argument list after _sub_other_options.
Rendered(out, cmdinfo, cmdargs) ==
    [out EXCEPT !.spawned =
        [i \in DOMAIN out.spawned |->
            [command |-> out.spawned[i].command, cmdinfo |-> cmdinfo, cmdargs |-> cmdargs]]]

(***************************************************************************)
(* CompressMap (compress.py).  Every method is an operator from its        *)
(* arguments, the object's fields and the host's answer proc to an         *)
(* Outcome: the value returned or the exception raised, and the            *)
(* subprocesses started.                                                   *)
(***************************************************************************)
\* The tar options a map is constructed with (comp_prog, decomp_opt).
COMP_PROG == <<"-I">>
DECOMP_OPT == <<"--use-compress-program">>

is_supported(m) == m \in DOMAIN map

\* An extension() that returns the last extension of the list.
extension_last(m) ==
    IF is_supported(m) THEN map[m].extensions[Len(map[m].extensions)] ELSE <<>>

extension(m) == IF is_supported(m) THEN map[m].extensions[1] ELSE <<>>

create_infodict(source, destination, basedir, filename, mode_, auto_extension, arch, other_options) ==
    [source |-> source,
     destination |-> destination,
     basedir |-> basedir,
     filename |-> filename,
     arch |-> IF PyTruthy(arch) THEN arch ELSE PyStr(<<>>),
     mode |-> IF Truthy(mode_) THEN mode_ ELSE mode,
     auto_ext |-> auto_extension,
     other_options |-> other_options,
     comp_prog |-> PyStr(COMP_PROG),
     decomp_opt |-> PyStr(DECOMP_OPT)]

\* The inner and outer loops of determine_mode, from extension k of mode i on.
\* A mode name is a non-empty string, so "if result:" holds exactly when the
\* inner loop has matched.
\* An inner loop that tries the first extension of the list only.
CompressMap_ext_loop_first(m, k, source) ==
    /\ k <= Len(map[m].extensions)
    /\ EndsWith(source, map[m].extensions[k])
    /\ is_available(map[m], available)

RECURSIVE CompressMap_ext_loop(_, _, _)
CompressMap_ext_loop(m, k, source) ==
    IF k > Len(map[m].extensions) THEN FALSE
    ELSE IF EndsWith(source, map[m].extensions[k]) /\ is_available(map[m], available)
         THEN TRUE
         ELSE CompressMap_ext_loop(m, k + 1, source)

RECURSIVE CompressMap_mode_loop(_, _)
CompressMap_mode_loop(i, source) ==
    IF i > Len(search_order) THEN NoneMode
    ELSE IF CompressMap_ext_loop(search_order[i], 1, source)
         THEN search_order[i]
         ELSE CompressMap_mode_loop(i + 1, source)

determine_mode(source) == CompressMap_mode_loop(1, source)

\* cmdinfo['filename'] += self.extension_separator + self.extension(cmdinfo["mode"])
add_extension(cmdinfo) ==
    IF cmdinfo.auto_ext
    THEN [cmdinfo EXCEPT !.filename =
             PyStr(@.v \o extension_separator \o extension(cmdinfo.mode))]
    ELSE cmdinfo

\* Lines 250-270 of _common: the rendering and the run.
common_body(infodict, proc) ==
    LET cmdinfo == add_extension(infodict)
        cmdlist == map[cmdinfo.mode]
        cmdargs == _sub_other_options(cmdlist.args, cmdinfo)
        opts == PercentFormat(Join(cmdargs, SPACE), cmdinfo)
        args == Join(<<cmdlist.cmd, opts>>, SPACE)
    IN Rendered(subcmd(args, proc), cmdinfo, cmdargs)

\* A _common that tests only that a mode is set, not that it is supported.
_common_unchecked(infodict, proc) ==
    IF ~Truthy(infodict.mode) THEN Returns(PyBool(FALSE))
    ELSE IF ~is_supported(infodict.mode) THEN Raises("KeyError")
    ELSE common_body(infodict, proc)

_common(infodict, proc) ==
    IF ~Truthy(infodict.mode) \/ ~is_supported(infodict.mode)
    THEN Returns(PyBool(FALSE))
    ELSE common_body(infodict, proc)

_sqfs(infodict, proc) ==
    IF ~Truthy(infodict.mode) \/ ~is_supported(infodict.mode)
    THEN Returns(PyBool(FALSE))
    ELSE LET cmdinfo == add_extension(infodict)
             cmdlist == map[cmdinfo.mode]
             sqfs_opts == _sub_other_options(cmdlist.args, cmdinfo)
         IN IF ~PyTruthy(infodict.arch)
            THEN IF <<"-Xbcj">> \notin Range(sqfs_opts) THEN Raises("ValueError")
                 ELSE LET no_x == RemoveFirst(sqfs_opts, <<"-Xbcj">>) IN
                      IF <<"%(arch)s">> \notin Range(no_x) THEN Raises("ValueError")
                      ELSE LET no_arch == RemoveFirst(no_x, <<"%(arch)s">>)
                               opts == PercentFormat(Join(no_arch, SPACE), cmdinfo)
                           IN Rendered(subcmd(Join(<<cmdlist.cmd, opts>>, SPACE), proc),
                                       cmdinfo, no_arch)
            ELSE LET opts == PercentFormat(Join(sqfs_opts, SPACE), cmdinfo)
                 IN Rendered(subcmd(Join(<<cmdlist.cmd, opts>>, SPACE), proc),
                             cmdinfo, sqfs_opts)

\* rsync() called with an infodict (as _run calls it for the func 'rsync').
rsync_infodict(infodict, proc) == _common(infodict, proc)

\* rsync(infodict=None, source, destination, mode)
rsync(source, destination, mode_, proc) ==
    _common(create_infodict(source, destination, PyNone, PyStr(<<>>),
                            IF Truthy(mode_) THEN mode_ ELSE "rsync",
                            FALSE, PyNone, PyNone), proc)

_run(infodict, proc) ==
    IF ~is_supported(infodict.mode) THEN Returns(PyBool(FALSE))
    ELSE LET func == map[infodict.mode].func IN
         CASE func = "_common" -> _common(infodict, proc)
           [] func = "_sqfs" -> _sqfs(infodict, proc)
           [] func = "rsync" -> rsync_infodict(infodict, proc)
           [] OTHER -> Raises("TypeError")    \* getattr(self, _func, None) is None

\* The infodict argument of a public call is None or a dictionary.
NoInfodict == [absent |-> TRUE]

\* _compress(infodict, filename, source, basedir, mode, auto_extension, arch, other_options)
_compress(infodict, filename, source, basedir, mode_, auto_extension, arch, other_options, proc) ==
    LET d0 == IF infodict = NoInfodict
              THEN create_infodict(source, PyNone, basedir, filename,
                                   IF Truthy(mode_) THEN mode_ ELSE mode,
                                   auto_extension, arch, other_options)
              ELSE infodict
    IN IF ~Truthy(d0.mode) THEN Returns(PyBool(FALSE))
       ELSE LET d1 == IF auto_extension THEN [d0 EXCEPT !.auto_ext = TRUE] ELSE d0
            IN _run(d1, proc)

\* An _extract that resolves the mode but hands the handler the dictionary as it
\* came, its mode still 'auto'.
_extract_keeps_auto(infodict, source, destination, mode_, other_options, proc) ==
    IF loaded_type # "Decompression" THEN Returns(PyBool(FALSE))
    ELSE IF infodict = NoInfodict THEN Raises("TypeError")
    ELSE LET d1 == IF infodict.mode = NoneMode
                   THEN [infodict EXCEPT !.mode = IF Truthy(mode) THEN mode ELSE "auto"]
                   ELSE infodict
         IN IF d1.mode = "auto" /\ ~Truthy(determine_mode(d1.source.v))
            THEN Returns(PyBool(FALSE))
            ELSE _run(d1, proc)

\* _extract(infodict, source, destination, mode, other_options)
_extract(infodict, source, destination, mode_, other_options, proc) ==
    IF loaded_type # "Decompression" THEN Returns(PyBool(FALSE))
    ELSE IF infodict = NoInfodict
         \* line 130 (when mode is false) or else line 137: subscript of None
         THEN Raises("TypeError")
    ELSE LET d0 == infodict     \* "if not infodict": a dictionary with keys is true
             d1 == IF d0.mode = NoneMode
                   THEN [d0 EXCEPT !.mode = IF Truthy(mode) THEN mode ELSE "auto"]
                   ELSE d0
         IN IF d1.mode = "auto"
            THEN LET found == determine_mode(d1.source.v) IN
                 IF ~Truthy(found) THEN Returns(PyBool(FALSE))
                 ELSE _run([d1 EXCEPT !.mode = found], proc)
            ELSE _run(d1, proc)

(***************************************************************************)
(* ContentsMap (contents.py).                                              *)
(***************************************************************************)
RECURSIVE ContentsMap_ext_loop(_, _, _)
ContentsMap_ext_loop(m, k, source) ==
    IF k > Len(map[m].extensions) THEN FALSE
    ELSE IF EndsWith(source, map[m].extensions[k]) /\ is_available(map[m], available)
         THEN TRUE
         ELSE ContentsMap_ext_loop(m, k + 1, source)

RECURSIVE ContentsMap_mode_loop(_, _)
ContentsMap_mode_loop(i, source) ==
    IF i > Len(search_order) THEN NoneMode
    ELSE IF ContentsMap_ext_loop(search_order[i], 1, source)
         THEN search_order[i]
         ELSE ContentsMap_mode_loop(i + 1, source)

ContentsMap_determine_mode(source) == ContentsMap_mode_loop(1, source)

\* str.split(): the pieces between runs of spaces.
RECURSIVE SplitWords(_, _)
SplitWords(s, cur) ==
    IF s = <<>> THEN (IF cur = <<>> THEN <<>> ELSE <<cur>>)
    ELSE IF Head(s) = " "
         THEN (IF cur = <<>> THEN <<>> ELSE <<cur>>) \o SplitWords(Tail(s), <<>>)
    ELSE SplitWords(Tail(s), Append(cur, Head(s)))

\* ContentsMap._common; popen is what the host does with the command: whether it
\* starts, and what it writes.
ContentsMap_common(source, destination, cmd, args, verbose, popen) ==
    LET d == [source |-> source, destination |-> destination,
              comp_prog |-> PyStr(COMP_PROG), decomp_opt |-> PyStr(DECOMP_OPT)]
        text == Join(args, SPACE)
    IN IF \E i \in 1..Len(text) : text[i] \in DOMAIN KeyOf /\ KeyOf[text[i]] \notin DOMAIN d
       THEN Raises("KeyError")
       ELSE LET _cmd == <<cmd>> \o SplitWords(PercentFormat(text, d), <<>>) IN
            IF popen.started
            THEN Outcome(PyStr(popen.stdout \o <<"\n">> \o popen.stderr), "",
                         <<[command |-> _cmd]>>)
            ELSE Returns(PyStr(<<>>))

ContentsMap_mountable == Returns(PyStr(<<"NOT IMPLEMENTED!!!!!!">>))

contents(source, destination, mode_, verbose, popen) ==
    LET m == IF mode_ = "auto" THEN ContentsMap_determine_mode(source.v) ELSE mode_ IN
    IF m \notin DOMAIN map THEN Raises("KeyError")      \* self._map[mode]
    ELSE CASE map[m].func = "_common" ->
                  ContentsMap_common(source, destination, map[m].cmd, map[m].args,
                                     verbose, popen)
           [] map[m].func = "_mountable" -> ContentsMap_mountable
           [] OTHER -> Raises("AttributeError")     \* getattr(self, name)

(***************************************************************************)
(* The definitions a map is constructed from (DeComp/definitions.py):      *)
(* mode -> (func, cmd, args, id, extensions, binaries).                    *)
(***************************************************************************)
Definition(f, c, a, i, e, b) ==
    [func |-> f, cmd |-> c, args |-> a, id |-> i, extensions |-> e, binaries |-> b]

COMPRESS_DEFINITIONS ==
    ("tbz2" :> Definition("_common", <<"tar">>,
         <<OTHER_OPTIONS, <<"-cpf">>, <<"%(filename)s">>, <<"-C">>, <<"%(basedir)s">>,
           <<"%(source)s">> >>,
         "TAR", << <<"t", "z">>, <<"z">> >>, {"tar"})) @@
    ("squashfs" :> Definition("_sqfs", <<"mksquashfs">>,
         <<<<"%(source)s">>, <<"%(filename)s">>, OTHER_OPTIONS, <<"-Xbcj">>, <<"%(arch)s">> >>,
         "SQUASHFS", << <<"s">>, <<"z">> >>, {"mksquashfs"})) @@
    ("rsync" :> Definition("rsync", <<"rsync">>,
         <<<<"-a">>, <<"%(source)s">>, <<"%(destination)s">> >>,
         "RSYNC", << <<"r">> >>, {"rsync"}))

DECOMPRESS_DEFINITIONS ==
    ("tbz2" :> Definition("_common", <<"tar">>,
         <<OTHER_OPTIONS, <<"-xpf">>, <<"%(source)s">>, <<"-C">>, <<"%(destination)s">> >>,
         "TAR", << <<"t", "z">>, <<"z">> >>, {"tar"})) @@
    ("squashfs" :> Definition("_common", <<"unsquashfs">>,
         <<OTHER_OPTIONS, <<"-d">>, <<"%(destination)s">>, <<"%(source)s">> >>,
         "SQUASHFS", << <<"s">>, <<"z">> >>, {"unsquashfs"})) @@
    ("rsync" :> Definition("rsync", <<"rsync">>,
         <<<<"-a">>, <<"%(source)s">>, <<"%(destination)s">> >>,
         "RSYNC", << <<"r">> >>, {"rsync"}))

BinariesOf(defs) == UNION {defs[m].binaries : m \in DOMAIN defs}

\* The binaries of the modes of a search order (lines 80-82 of compress.py).
RECURSIVE OrderBinaries(_, _)
OrderBinaries(defs, order) ==
    IF order = <<>> THEN {}
    ELSE defs[Head(order)].binaries \cup OrderBinaries(defs, Tail(order))

BIN_DIR == <<"/", "usr", "/", "bin", "/">>

(***************************************************************************)
(* Spec: a CompressMap constructed from one of the definition tables, on a *)
(* host that holds some of the binaries, and called through its methods.   *)
(***************************************************************************)
Idle ==
    /\ op = ""
    /\ inp = NoValue
    /\ ret = NoValue
    /\ exc = ""
    /\ spawned = <<>>

Init ==
    /\ loaded_type \in {"Compression", "Decompression"}
    /\ map = IF loaded_type = "Compression" THEN COMPRESS_DEFINITIONS
                                             ELSE DECOMPRESS_DEFINITIONS
    /\ mode \in IF loaded_type = "Compression" THEN {"tbz2", "squashfs"}
                                               ELSE {"auto", "tbz2"}
    /\ search_order \in SeqsOf(DOMAIN map, 1, MaxOrder)
    /\ extension_separator = <<".">>
    /\ host \in UNION {[B -> {BIN_DIR}] : B \in SUBSET BinariesOf(map)}
    /\ which_present = TRUE
    /\ available = check_available(SetToSeq(OrderBinaries(map, search_order)),
                                   host, which_present)
    /\ Idle

\* The arguments the calls are made with.
Sources == {<<"a", "t", "z">>, <<"a", "s">>, <<"a">>}
ModeArgs == {NoneMode, "", "auto", "tbz2", "squashfs", "rsync", "zip"}
OtherOptions == {PyNone, PyStr(<<"-v">>)}
Archs == {PyNone, PyStr(<<"x86">>)}
Procs == {[started |-> TRUE, status |-> 0], [started |-> TRUE, status |-> 1],
          [started |-> FALSE, status |-> 0]}

Infodicts(S, A, M, X, O) ==
    {[source |-> PyStr(s), destination |-> PyStr(<<"d">>), basedir |-> PyStr(<<"b">>),
      filename |-> PyStr(<<"f">>), arch |-> a, mode |-> m, auto_ext |-> x,
      other_options |-> o, comp_prog |-> PyStr(COMP_PROG),
      decomp_opt |-> PyStr(DECOMP_OPT)] :
        s \in S, a \in A, m \in M, x \in X, o \in O}

\* The dictionaries handed to the compressing calls and to the handlers.
CompressInfodicts ==
    Infodicts({<<"a">>}, {PyStr(<<>>), PyStr(<<"x86">>)}, ModeArgs, BOOLEAN, {PyNone})

\* The dictionaries handed to extract.
ExtractInfodicts ==
    Infodicts(Sources, {PyStr(<<>>)}, ModeArgs, {FALSE}, OtherOptions)

Finish(name, args, out) ==
    /\ op' = name
    /\ inp' = args
    /\ ret' = out.ret
    /\ exc' = out.exc
    /\ spawned' = out.spawned
    /\ UNCHANGED config

\* compress(infodict=..., auto_extension=...): self.compress is None unless the
\* Compression definitions are loaded.
CompressInfodict ==
    /\ op = ""
    /\ \E d \in CompressInfodicts, x \in BOOLEAN, proc \in Procs :
          Finish("compress",
                 [infodict |-> d, auto_extension |-> x, proc |-> proc],
                 IF loaded_type # "Compression" THEN Raises("TypeError")
                 ELSE _compress(d, PyStr(<<>>), PyNone, PyStr(<<".">>), NoneMode, x,
                                PyNone, PyNone, proc))

\* compress(filename=..., source=..., basedir=..., mode=..., auto_extension=..., ...)
CompressArgs ==
    /\ op = ""
    /\ \E m \in ModeArgs, x \in BOOLEAN, a \in Archs, o \in OtherOptions, proc \in Procs :
          LET d == create_infodict(PyStr(<<"a">>), PyNone, PyStr(<<"b">>), PyStr(<<"f">>),
                                   IF Truthy(m) THEN m ELSE mode, x, a, o)
          IN Finish("compress",
                    [infodict |-> d, auto_extension |-> x, proc |-> proc, mode |-> m],
                    IF loaded_type # "Compression" THEN Raises("TypeError")
                    ELSE _compress(NoInfodict, PyStr(<<"f">>), PyStr(<<"a">>),
                                   PyStr(<<"b">>), m, x, a, o, proc))

\* extract(infodict=...): self.extract is None when the Compression definitions
\* are loaded.
ExtractInfodict ==
    /\ op = ""
    /\ \E d \in ExtractInfodicts, proc \in Procs :
          Finish("extract", [infodict |-> d, mode |-> NoneMode, proc |-> proc],
                 IF loaded_type = "Compression" THEN Raises("TypeError")
                 ELSE _extract(d, PyNone, PyNone, NoneMode, PyNone, proc))

\* extract(source=..., destination=..., mode=...)
ExtractArgs ==
    /\ op = ""
    /\ \E s \in Sources, m \in ModeArgs, proc \in Procs :
          Finish("extract",
                 [infodict |-> NoInfodict, source |-> PyStr(s), mode |-> m, proc |-> proc],
                 IF loaded_type = "Compression" THEN Raises("TypeError")
                 ELSE _extract(NoInfodict, PyStr(s), PyStr(<<"d">>), m, PyNone, proc))

\* rsync(source=..., destination=..., mode=...)
Rsync ==
    /\ op = ""
    /\ \E m \in ModeArgs, proc \in Procs :
          Finish("rsync",
                 [infodict |-> create_infodict(PyStr(<<"a">>), PyStr(<<"d">>), PyNone,
                                               PyStr(<<>>),
                                               IF Truthy(m) THEN m ELSE "rsync",
                                               FALSE, PyNone, PyNone),
                  mode |-> m, proc |-> proc],
                 rsync(PyStr(<<"a">>), PyStr(<<"d">>), m, proc))

\* _run(infodict), _common(infodict), _sqfs(infodict)
Run ==
    /\ op = ""
    /\ \E d \in CompressInfodicts, proc \in Procs :
          Finish("_run", [infodict |-> d, proc |-> proc], _run(d, proc))

Common ==
    /\ op = ""
    /\ \E d \in CompressInfodicts, proc \in Procs :
          Finish("_common", [infodict |-> d, proc |-> proc], _common(d, proc))

Sqfs ==
    /\ op = ""
    /\ \E d \in CompressInfodicts, proc \in Procs :
          Finish("_sqfs", [infodict |-> d, proc |-> proc], _sqfs(d, proc))

\* extension(mode)
Extension ==
    /\ op = ""
    /\ \E m \in ModeArgs :
          Finish("extension", [mode |-> m], Returns(PyStr(extension(m))))

\* utils.subcmd(command) on a host where the subshell ends with any exit status.
ExitStatuses == {0, 1, 2, 127, 255, -9}

Subcmd ==
    /\ op = ""
    /\ \E st \in ExitStatuses, started \in BOOLEAN :
          LET proc == [started |-> started, status |-> st] IN
          Finish("subcmd", [proc |-> proc], subcmd(<<"true">>, proc))

\* The caller takes the result; the object is as it was.
Return ==
    /\ op # ""
    /\ op' = ""
    /\ inp' = NoValue
    /\ ret' = NoValue
    /\ exc' = ""
    /\ spawned' = <<>>
    /\ UNCHANGED config

Next ==
    \/ CompressInfodict
    \/ CompressArgs
    \/ ExtractInfodict
    \/ ExtractArgs
    \/ Rsync
    \/ Run
    \/ Common
    \/ Sqfs
    \/ Extension
    \/ Subcmd
    \/ Return

Spec == Init /\ [][Next]_vars

(***************************************************************************)
(* SpecModes: a CompressMap and a ContentsMap constructed from the same    *)
(* two definitions, whose extension lists and binaries vary, and asked     *)
(* for the mode of a file name.                                            *)
(***************************************************************************)
ModeKeys == {"tar", "txz"}
ModeFunc == ("tar" :> "_common") @@ ("txz" :> "_mountable")
ModeBinaries == {"tar", "xz"}
ExtensionLists == {<< <<"z">> >>, << <<"t", "z">> >>, << <<"t", "z">>, <<"z">> >>}
BinarySets == {{"tar"}, {"xz"}, {"tar", "xz"}}
ListArgs == << <<"%(decomp_opt)s">>, <<"-tf">>, <<"%(source)s">> >>

ModeDefinitions ==
    {[m \in ModeKeys |-> Definition(ModeFunc[m], <<m>>, ListArgs, m, e[m], b[m])] :
        e \in [ModeKeys -> ExtensionLists], b \in [ModeKeys -> BinarySets]}

FileNames == SeqsOf({"a", "t", "z"}, 0, MaxNameLen)

InitModes ==
    /\ loaded_type = "Decompression"
    /\ mode = "auto"
    /\ map \in ModeDefinitions
    /\ search_order \in SeqsOf(ModeKeys, 1, MaxOrder)
    /\ extension_separator = <<".">>
    /\ host \in UNION {[B -> {BIN_DIR}] : B \in SUBSET ModeBinaries}
    /\ which_present = TRUE
    /\ available = check_available(SetToSeq(OrderBinaries(map, search_order)),
                                   host, which_present)
    /\ Idle

\* CompressMap.determine_mode(source)
DetermineMode ==
    /\ op = ""
    /\ \E s \in FileNames :
          Finish("determine_mode", [source |-> s], Returns(PyMode(determine_mode(s))))

\* ContentsMap.determine_mode(source)
ContentsDetermineMode ==
    /\ op = ""
    /\ \E s \in FileNames :
          Finish("ContentsMap.determine_mode", [source |-> s],
                 Returns(PyMode(ContentsMap_determine_mode(s))))

\* ContentsMap.contents(source, destination, mode, verbose)
ContentsSources == {<<"a", "z">>, <<"t", "z">>, <<"a">>}
Popens == {[started |-> TRUE, stdout |-> <<"a/b">>, stderr |-> <<>>],
           [started |-> FALSE, stdout |-> <<>>, stderr |-> <<>>]}

Contents ==
    /\ op = ""
    /\ \E s \in ContentsSources, m \in {"auto", "tar", "txz", "zip"}, popen \in Popens :
          Finish("contents", [source |-> s, mode |-> m, popen |-> popen],
                 contents(PyStr(s), PyStr(<<"d">>), m, FALSE, popen))

NextModes ==
    \/ DetermineMode
    \/ ContentsDetermineMode
    \/ Contents
    \/ Return

SpecModes == InitModes /\ [][NextModes]_vars

(***************************************************************************)
(* SpecProbe: check_available on hosts that hold some of the names and may *)
(* lack the "which" probe.                                                 *)
(***************************************************************************)
ProbeNames == {"tar", "xz", "rsync"}
ProbeDirs == {BIN_DIR, <<"/", "bin", "/">>}

InitProbe ==
    /\ loaded_type = "Compression"
    /\ mode = "tbz2"
    /\ map = COMPRESS_DEFINITIONS
    /\ search_order = <<"tbz2">>
    /\ extension_separator = <<".">>
    /\ host \in UNION {[B -> ProbeDirs] : B \in SUBSET ProbeNames}
    /\ which_present \in BOOLEAN
    /\ available = check_available(SetToSeq(OrderBinaries(map, search_order)),
                                   host, which_present)
    /\ Idle

CheckAvailable ==
    /\ op = ""
    /\ \E c \in SeqsOf(ProbeNames, 0, MaxCommands) :
          Finish("check_available", [commands |-> c],
                 Returns(PySet(check_available(c, host, which_present))))

NextProbe ==
    \/ CheckAvailable
    \/ Return

SpecProbe == InitProbe /\ [][NextProbe]_vars

(***************************************************************************)
(* SpecRender: a map of one mode whose argument template varies, rendered  *)
(* and run by the mode's handler for every kind of other_options.          *)
(***************************************************************************)
Tokens == {OTHER_OPTIONS, <<"-c">>, <<"%(source)s">>, <<>>, <<"-Xbcj">>, <<"%(arch)s">>}
Templates == SeqsOf(Tokens, 0, MaxArgs)
RenderOptions ==
    {PyNone, PyStr(<<>>), PyStr(<<"-v">>), PyList(<<>>), PyList(<< <<"-a">>, <<"-b">> >>),
     PyList(<< <<>> >>)}

InitRender ==
    /\ loaded_type = "Compression"
    /\ mode = "m"
    /\ \E f \in {"_common", "_sqfs"}, a \in Templates :
          map = ("m" :> Definition(f, <<"cmd">>, a, "M", << <<"m">> >>, {"cmd"}))
    /\ search_order = <<"m">>
    /\ extension_separator = <<".">>
    /\ host = ("cmd" :> BIN_DIR)
    /\ which_present = TRUE
    /\ available = check_available(SetToSeq(OrderBinaries(map, search_order)),
                                   host, which_present)
    /\ Idle

\* _run(infodict) for the one mode: its handler renders the template and runs it.
Render ==
    /\ op = ""
    /\ \E d \in Infodicts({<<"a">>}, {PyStr(<<>>), PyStr(<<"x86">>)}, {"m"}, {FALSE},
                          RenderOptions) :
          Finish("render", [infodict |-> d],
                 _run(d, [started |-> TRUE, status |-> 0]))

NextRender ==
    \/ Render
    \/ Return

SpecRender == InitRender /\ [][NextRender]_vars

(***************************************************************************)
(* Properties.                                                             *)
(***************************************************************************)
\* A mode satisfies the resolver's two conditions for a file name.
ExtensionMatches(m, source) ==
    \E k \in DOMAIN map[m].extensions : EndsWith(source, map[m].extensions[k])
BinariesAvailable(m) == map[m].binaries \subseteq available
Satisfies(m, source) == ExtensionMatches(m, source) /\ BinariesAvailable(m)

\* The first mode of the search order that satisfies both, or None.
FirstMatch(source) ==
    LET hits == {i \in DOMAIN search_order : Satisfies(search_order[i], source)} IN
    IF hits = {} THEN NoneMode
    ELSE search_order[CHOOSE i \in hits : \A j \in hits : i <= j]

\* The string s holds the string part as a contiguous piece.
Contains(s, part) ==
    \E i \in 0..(Len(s) - Len(part)) : SubSeq(s, i + 1, i + Len(part)) = part

\* extract was called with a dictionary whose mode resolves to 'auto'.
ExtractAuto ==
    /\ op = "extract"
    /\ loaded_type = "Decompression"
    /\ inp.infodict # NoInfodict
    /\ \/ inp.infodict.mode = "auto"
       \/ inp.infodict.mode = NoneMode /\ mode = "auto"

\* C2 (as claimed): no compress, extract or rsync call starts a subprocess for a
\* mode whose required binaries are not all in the available set.
C2_NoSubprocessWithoutBinaries ==
    op \in {"compress", "extract", "rsync"} =>
        \A i \in DOMAIN spawned : BinariesAvailable(spawned[i].cmdinfo.mode)

\* C2 (amended): when extract auto-detects the mode, the subprocess it starts is
\* for a mode whose required binaries are all in the available set (and so on
\* the host).
C2_AutoDetectedModeHasBinaries ==
    ExtractAuto =>
        \A i \in DOMAIN spawned :
            /\ BinariesAvailable(spawned[i].cmdinfo.mode)
            /\ map[spawned[i].cmdinfo.mode].binaries \subseteq DOMAIN host

\* An auto-detecting extract started a subprocess although a mode of the search
\* order lacks a binary.
C2_Witness ==
    /\ ExtractAuto
    /\ spawned # <<>>
    /\ \E i \in DOMAIN search_order : ~BinariesAvailable(search_order[i])

\* C5: a call that starts the subshell returns True exactly when the exit status
\* is 0, and compress, extract, rsync and the handlers return that same value.
C5_ReturnIsExitStatus ==
    (op \in {"subcmd", "compress", "extract", "rsync", "_run", "_common", "_sqfs"}
        /\ spawned # <<>>) =>
            /\ exc = ""
            /\ ret = PyBool(inp.proc.status = 0)
            /\ Len(spawned) = 1

\* compress ran a subshell that ended with a non-zero status and returned False.
C5_Witness ==
    /\ op = "compress"
    /\ spawned # <<>>
    /\ inp.proc.status # 0
    /\ ret = PyBool(FALSE)

\* C6 (as claimed): extract called without an infodict on a map loaded with the
\* Decompression definitions returns a boolean and does not raise.
C6_ExtractWithoutInfodict ==
    (op = "extract" /\ loaded_type = "Decompression" /\ inp.infodict = NoInfodict) =>
        exc = "" /\ ret.t = "bool"

\* C8: an auto-detecting extract returns False and starts nothing when no mode
\* of the search order fits the source; otherwise the handler gets the resolved
\* mode, never 'auto'.
C8_ExtractAuto ==
    ExtractAuto =>
        LET found == FirstMatch(inp.infodict.source.v) IN
        IF found = NoneMode
        THEN ret = PyBool(FALSE) /\ spawned = <<>> /\ exc = ""
        ELSE /\ \A i \in DOMAIN spawned : spawned[i].cmdinfo.mode = found
             /\ inp.proc.started => Len(spawned) = 1

\* An auto-detecting extract found no mode although an extension fits: the
\* binary is missing.
C8_Witness ==
    /\ ExtractAuto
    /\ FirstMatch(inp.infodict.source.v) = NoneMode
    /\ \E i \in DOMAIN search_order :
          ExtensionMatches(search_order[i], inp.infodict.source.v)
    /\ ret = PyBool(FALSE)

\* C9: with auto-extension the file name handed to the command is the given
\* name, the separator and the mode's first extension, without it the given
\* name; extension(mode) is the first extension of a supported mode, else ''.
C9_AutoExtension ==
    /\ (op = "compress" /\ spawned # <<>>) =>
          LET given == inp.infodict.filename.v
              m == spawned[1].cmdinfo.mode
              name == IF inp.auto_extension \/ inp.infodict.auto_ext
                      THEN given \o extension_separator \o map[m].extensions[1]
                      ELSE given
          IN /\ spawned[1].cmdinfo.filename = PyStr(name)
             /\ <<"%(filename)s">> \in Range(map[m].args) =>
                    Contains(spawned[1].command, name)
    /\ op = "extension" =>
          ret = PyStr(IF inp.mode \in DOMAIN map THEN map[inp.mode].extensions[1]
                                                 ELSE <<>>)

\* compress with auto-extension ran a command that names "f" with the separator
\* and the first of several extensions.
C9_Witness ==
    /\ op = "compress"
    /\ inp.auto_extension
    /\ spawned # <<>>
    /\ Len(map[spawned[1].cmdinfo.mode].extensions) > 1
    /\ Contains(spawned[1].command, <<"f", ".", "t", "z">>)

\* C10: _run, _common and _sqfs return False, start nothing and do not raise for
\* a mode that is no key of the definitions.
C10_UnsupportedMode ==
    (op \in {"_run", "_common", "_sqfs"} /\ inp.infodict.mode \notin DOMAIN map) =>
        ret = PyBool(FALSE) /\ spawned = <<>> /\ exc = ""

\* _common was handed a mode that is set but not defined.
C10_Witness ==
    /\ op = "_common"
    /\ inp.infodict.mode = "zip"
    /\ ret = PyBool(FALSE)

\* C1: determine_mode of CompressMap and of ContentsMap returns the first mode
\* of the search order with an extension that ends the file name and with all
\* its binaries available, and None exactly when there is no such mode.
C1_FirstMatchingMode ==
    op \in {"determine_mode", "ContentsMap.determine_mode"} =>
        ret = PyMode(FirstMatch(inp.source))

\* determine_mode skipped a mode that fits by extension but lacks a binary and
\* returned a later, different mode.
C1_Witness ==
    /\ op = "determine_mode"
    /\ \E i, j \in DOMAIN search_order :
          /\ i < j
          /\ ExtensionMatches(search_order[i], inp.source)
          /\ ~BinariesAvailable(search_order[i])
          /\ search_order[j] # search_order[i]
          /\ ret = PyMode(search_order[j])

\* C3: check_available returns the requested names that are on the host PATH,
\* each once, and the empty set when the probe cannot be started.
C3_AvailableIsRequestedAndPresent ==
    op = "check_available" =>
        /\ exc = ""
        /\ ret = PySet(IF which_present
                       THEN Range(inp.commands) \cap DOMAIN host
                       ELSE {})

\* A name asked for twice and present came back once; a name asked for and
\* absent did not.
C3_Witness ==
    /\ op = "check_available"
    /\ which_present
    /\ \E i, j, k \in DOMAIN inp.commands :
          /\ i < j
          /\ inp.commands[i] = inp.commands[j]
          /\ inp.commands[i] \in DOMAIN host
          /\ inp.commands[k] \notin DOMAIN host
          /\ ret = PySet({inp.commands[i]})

\* C4 (as claimed): whatever the template and other_options, the command _common
\* runs holds no 'other_options' token, no empty token and no placeholder.
C4_FullySubstituted ==
    (op = "render" /\ map["m"].func = "_common" /\ spawned # <<>>) =>
        /\ OTHER_OPTIONS \notin Range(spawned[1].cmdargs)
        /\ <<>> \notin Range(spawned[1].cmdargs)
        /\ \A i \in DOMAIN spawned[1].command :
              /\ spawned[1].command[i] \notin DOMAIN KeyOf
              /\ spawned[1].command[i] # "other_options"

\* C7 (as claimed): contents with mode 'auto' or a defined mode returns a string
\* and does not raise, whatever the source.
C7_ContentsReturnsString ==
    (op = "contents" /\ inp.mode \in {"auto"} \cup DOMAIN map) =>
        exc = "" /\ ret.t = "str"

\* C11 (as claimed): for every template of a mode handled by _sqfs the call does
\* not raise; with an empty arch the command run holds neither '-Xbcj' nor the
\* arch placeholder, with an arch both are kept and the placeholder gives way to
\* the arch value.
C11_SqfsArch ==
    (op = "render" /\ map["m"].func = "_sqfs") =>
        /\ exc = ""
        /\ spawned # <<>>
        /\ LET command == spawned[1].command
               args == map["m"].args
               arch == inp.infodict.arch.v
           IN IF arch = <<>>
              THEN /\ "-Xbcj" \notin Range(command)
                   /\ "%(arch)s" \notin Range(command)
              ELSE /\ <<"-Xbcj">> \in Range(args) => "-Xbcj" \in Range(command)
                   /\ "%(arch)s" \notin Range(command)
                   /\ <<"%(arch)s">> \in Range(args) => Contains(command, arch)

====
